---- MODULE Spec2Model ----
(***************************************************************************)
(* pwfilter: a wordlist filter.  main() (cli.py) parses the command line,  *)
(* resolves the selected presets to regex patterns and hands them, with    *)
(* the opened files, to filter_passwords() (core.py), which compiles the   *)
(* patterns, loads the dictionary, streams the wordlist line by line and   *)
(* prints a summary on stderr.                                             *)
(*                                                                         *)
(* A string is a sequence of one-character strings.  A text file is the    *)
(* sequence of the lines that iterating it yields, each line keeping its   *)
(* terminator "\n".                                                        *)
(*                                                                         *)
(* The model starts where main() calls parse_args(): the --version and     *)
(* --list-presets shortcuts before it open no file and filter nothing.     *)
(* The test at cli.py 93 (not args.wordlist) never holds, a file object    *)
(* being truthy.  I/O failures are not modelled.                           *)
(***************************************************************************)
EXTENDS Integers, Sequences, FiniteSets, TLC

\* ------------------------------------------------------------ bounds
\* Longest wordlist that Init enumerates over LineUniverse.
MaxLines == 2
\* Longest --presets list that Init enumerates over IdUniverse.
MaxPresets == 2
\* Number of invocations of one session (SpecSession).
MaxRuns == 3

\* ------------------------------------------------------------ characters
UpperLetters ==
  <<"A","B","C","D","E","F","G","H","I","J","K","L","M",
    "N","O","P","Q","R","S","T","U","V","W","X","Y","Z">>

LowerLetters ==
  <<"a","b","c","d","e","f","g","h","i","j","k","l","m",
    "n","o","p","q","r","s","t","u","v","w","x","y","z">>

Digits == {"0","1","2","3","4","5","6","7","8","9"}

\* The grave accent (U+0060), which a TLA+ string cannot hold, by its name.
Grave == "grave"

\* The characters of SPECIAL_CHARS_REGEX's class.
SpecialChars ==
  {"!","@","#","$","%","^","&","*","(",")","_","+","-","=","[","]","{","}",
   ";","'",":","\"","\\","|",",",".","<",">","/","?","~",Grave}

\* The Kelvin sign (U+212A), by its name: a letter outside A-Z and a-z whose
\* lower case is "k", so that it matches [a-z] and [A-Z] under re.IGNORECASE
\* only.
Kelvin == "kelvin"

\* str.isspace() on the characters the model uses.
IsSpace(c) == c \in {" ", "\t", "\n", "\r", "\f"}

IsUpper(c) == \E k \in 1..26 : UpperLetters[k] = c
IsLower(c) == \E k \in 1..26 : LowerLetters[k] = c
IsDigit(c) == c \in Digits
IsSpecial(c) == c \in SpecialChars

\* str.lower() on one character.
LowerChar(c) ==
  IF IsUpper(c)
    THEN LowerLetters[CHOOSE k \in 1..26 : UpperLetters[k] = c]
    ELSE IF c = Kelvin THEN "k" ELSE c

\* str.lower()
Lower(s) == [i \in 1..Len(s) |-> LowerChar(s[i])]

RECURSIVE LStrip(_)
LStrip(s) ==
  IF s # <<>> /\ IsSpace(Head(s)) THEN LStrip(Tail(s)) ELSE s

RECURSIVE RStrip(_)
RStrip(s) ==
  IF s # <<>> /\ IsSpace(s[Len(s)])
    THEN RStrip(SubSeq(s, 1, Len(s) - 1))
    ELSE s

\* Mutant: only the line terminator is removed.
Strip_NewlineOnly(s) ==
  IF s # <<>> /\ s[Len(s)] = "\n" THEN SubSeq(s, 1, Len(s) - 1) ELSE s

\* str.strip(): leading and trailing whitespace removed.
Strip(s) == RStrip(LStrip(s))

\* ------------------------------------------------------------ preset catalog
None == "None"

\* SPECIAL_CHARS_REGEX; the grave accent that ends the class is written \x60.
SPECIAL_CHARS_REGEX == "[!@#$%^&*()_+\\-=[\\]{};\\':\"\\\\|,.<>/?~\\x60]"

RX_s8all ==
  "^(?=.*[a-z])(?=.*[A-Z])(?=.*[0-9])(?=.*" \o SPECIAL_CHARS_REGEX \o ").{8,}$"

RX_s12all ==
  "^(?=.*[a-z])(?=.*[A-Z])(?=.*[0-9])(?=.*" \o SPECIAL_CHARS_REGEX \o ").{12,}$"

RX_s10lud ==
  "^(?=(?:.*[a-z]){1,})(?=(?:.*[A-Z]){1,})(?=(?:.*[0-9]){1,}).{10,}$"

\* The catalog in definition order: <<name, id, regex>>.
PresetTable ==
  << <<"min_length_8", "ml8", "^.{8,}$">>,
     <<"min_length_12", "ml12", "^.{12,}$">>,
     <<"has_uppercase", "upper", "[A-Z]">>,
     <<"has_lowercase", "lower", "[a-z]">>,
     <<"has_digit", "digit", "[0-9]">>,
     <<"has_special_char", "special", SPECIAL_CHARS_REGEX>>,
     <<"has_consecutive_repeated_chars", "consec", "(.)\\1">>,
     <<"contains_common_pattern_password", "cmnpwd", "password">>,
     <<"in_dictionary", "dict", None>>,
     <<"strong_8_plus_all_types", "s8all", RX_s8all>>,
     <<"strong_12_plus_all_types", "s12all", RX_s12all>>,
     <<"strong_10_plus_3_of_4_types_LUD", "s10lud", RX_s10lud>>,
     <<"only_lowercase", "onlylow", "^[a-z]+$">>,
     <<"only_uppercase", "onlyup", "^[A-Z]+$">>,
     <<"only_digits", "onlydig", "^[0-9]+$">>,
     <<"only_alphabetic", "onlyalpha", "^[a-zA-Z]+$">>,
     <<"only_alphanumeric", "onlyalnum", "^[a-zA-Z0-9]+$">>,
     <<"starts_with_letter", "startlet", "^[a-zA-Z]">>,
     <<"ends_with_digit", "enddig", "[0-9]$">>,
     <<"no_digits", "nodig", "^[^0-9]*$">>,
     <<"no_letters", "nolet", "^[^a-zA-Z]*$">> >>

PresetNames == {PresetTable[k][1] : k \in 1..Len(PresetTable)}

\* PRESETS[name] = the preset's id and regex.
PRESETS ==
  [n \in PresetNames |->
     LET k == CHOOSE j \in 1..Len(PresetTable) : PresetTable[j][1] = n
     IN  [id |-> PresetTable[k][2], regex |-> PresetTable[k][3]]]

PresetIds == {PRESETS[n].id : n \in PresetNames}

PRESET_ID_TO_NAME_MAP ==
  [i \in PresetIds |-> CHOOSE n \in PresetNames : PRESETS[n].id = i]

ALL_PRESET_CHOICES == PresetNames \cup PresetIds

get_preset_by_name_or_id(identifier) ==
  IF identifier \in PresetNames THEN identifier
  ELSE IF identifier \in PresetIds THEN PRESET_ID_TO_NAME_MAP[identifier]
  ELSE None

\* ------------------------------------------------------------ regex engine
\* re.compile(p, flags) raises re.error on these custom patterns.
InvalidPatterns == {"(", "[a-"}

Compiles(p) == p \notin InvalidPatterns

\* Mutant: the class [A-Z] is matched case-sensitively whatever the flag.
InAZ_IgnoresFlag(c, ic) == IsUpper(c)

\* A character against a class, under re.IGNORECASE when ic: a character
\* matches a class that holds either of its cases.
InAZ(c, ic) == IsUpper(c) \/ (ic /\ IsLower(LowerChar(c)))
Inaz(c, ic) == IsLower(c) \/ (ic /\ IsLower(LowerChar(c)))
InAlpha(c, ic) == InAZ(c, ic) \/ Inaz(c, ic)

\* "." matches every character but the newline.
Dot(c) == c # "\n"

Positions(s) == 1..Len(s)

\* Mutant: the length bound is exclusive.
MinLength_Strict(s, n) == Len(s) > n /\ \A i \in Positions(s) : Dot(s[i])

\* ^.{n,}$ on a candidate (which holds no trailing newline).
MinLength(s, n) == Len(s) >= n /\ \A i \in Positions(s) : Dot(s[i])

\* Mutant: the lookahead tests the first character only, as (?=X) does.
Ahead_FirstOnly(s, inX) == s # <<>> /\ inX[1]

\* (?=.*X) at position 0: some character of X with no newline before it;
\* inX[i] tells whether s[i] is in X.
Ahead(s, inX) ==
  \E i \in Positions(s) : inX[i] /\ \A j \in 1..(i - 1) : Dot(s[j])

\* A literal occurring anywhere, letters compared caselessly when ic.
Contains(s, lit, ic) ==
  \E i \in 0..(Len(s) - Len(lit)) :
    \A j \in 1..Len(lit) :
      IF ic THEN LowerChar(s[i + j]) = LowerChar(lit[j]) ELSE s[i + j] = lit[j]

\* ^lit$
Equals(s, lit, ic) == Len(s) = Len(lit) /\ Contains(s, lit, ic)

Lit_password == <<"p","a","s","s","w","o","r","d">>
Lit_apple == <<"a","p","p","l","e">>
Lit_banana == <<"b","a","n","a","n","a">>

\* comp_rx.search(s) is not None, for comp_rx = re.compile(p, IGNORECASE if ic).
Search(p, ic, s) ==
  LET lo(c) == Inaz(c, ic)
      up(c) == InAZ(c, ic)
      dg(c) == IsDigit(c)
      sp(c) == IsSpecial(c)
      los == [i \in Positions(s) |-> lo(s[i])]
      ups == [i \in Positions(s) |-> up(s[i])]
      dgs == [i \in Positions(s) |-> dg(s[i])]
      sps == [i \in Positions(s) |-> sp(s[i])]
  IN
  CASE p = "^.{8,}$" -> MinLength(s, 8)
    [] p = "^.{12,}$" -> MinLength(s, 12)
    [] p = "[A-Z]" -> \E i \in Positions(s) : up(s[i])
    [] p = "[a-z]" -> \E i \in Positions(s) : lo(s[i])
    [] p = "[0-9]" -> \E i \in Positions(s) : dg(s[i])
    [] p = SPECIAL_CHARS_REGEX -> \E i \in Positions(s) : sp(s[i])
    [] p = "(.)\\1" ->
         \E i \in 1..(Len(s) - 1) :
           /\ Dot(s[i])
           /\ IF ic THEN LowerChar(s[i + 1]) = LowerChar(s[i]) ELSE s[i + 1] = s[i]
    [] p = "password" -> Contains(s, Lit_password, ic)
    [] p = RX_s8all ->
         Ahead(s, los) /\ Ahead(s, ups) /\ Ahead(s, dgs) /\ Ahead(s, sps) /\ MinLength(s, 8)
    [] p = RX_s12all ->
         Ahead(s, los) /\ Ahead(s, ups) /\ Ahead(s, dgs) /\ Ahead(s, sps) /\ MinLength(s, 12)
    [] p = RX_s10lud ->
         Ahead(s, los) /\ Ahead(s, ups) /\ Ahead(s, dgs) /\ MinLength(s, 10)
    [] p = "^[a-z]+$" -> Len(s) >= 1 /\ \A i \in Positions(s) : lo(s[i])
    [] p = "^[A-Z]+$" -> Len(s) >= 1 /\ \A i \in Positions(s) : up(s[i])
    [] p = "^[0-9]+$" -> Len(s) >= 1 /\ \A i \in Positions(s) : dg(s[i])
    [] p = "^[a-zA-Z]+$" -> Len(s) >= 1 /\ \A i \in Positions(s) : InAlpha(s[i], ic)
    [] p = "^[a-zA-Z0-9]+$" ->
         Len(s) >= 1 /\ \A i \in Positions(s) : InAlpha(s[i], ic) \/ dg(s[i])
    [] p = "^[a-zA-Z]" -> Len(s) >= 1 /\ InAlpha(s[1], ic)
    [] p = "[0-9]$" -> Len(s) >= 1 /\ dg(s[Len(s)])
    [] p = "^[^0-9]*$" -> \A i \in Positions(s) : ~dg(s[i])
    [] p = "^[^a-zA-Z]*$" -> \A i \in Positions(s) : ~InAlpha(s[i], ic)
    [] p = "^(apple|banana)$" -> Equals(s, Lit_apple, ic) \/ Equals(s, Lit_banana, ic)
    [] p = "^password$" -> Equals(s, Lit_password, ic)

\* ------------------------------------------------------------ inputs
NL == "\n"

Line_empty == <<NL>>
Line_blank == <<" ", "\t", NL>>
Line_Abc == <<"A","b","c",NL>>
Line_Password == <<"P","a","s","s","w","o","r","d",NL>>
Line_Passw0rd_padded == <<" ","P","a","s","s","w","0","r","d","!"," ",NL>>

\* The lines Init builds the bounded wordlists from.
LineUniverse ==
  {Line_empty, Line_blank, Line_Abc, Line_Password, Line_Passw0rd_padded}

\* spec.md section 8, example 1.
Example1Wordlist ==
  << <<"a","b","c",NL>>,
     <<"A","B","C","D","E","F","G","H",NL>>,
     <<NL>>,
     <<" "," ",NL>>,
     <<"P","a","s","s","w","0","r","d","!",NL>> >>

\* spec.md section 8, example 3; the last line has no terminator.
Example3Wordlist ==
  << <<"p","a","s","s","w","o","r","d",NL>>,
     <<"P","a","s","s","w","o","r","d",NL>>,
     <<"h","u","n","t","e","r","2">> >>

Example3Dictionary ==
  << <<"p","a","s","s","w","o","r","d",NL>>,
     <<"q","w","e","r","t","y",NL>> >>

\* spec.md section 8, example 4.
Example4Wordlist ==
  << <<"a","p","p","l","e",NL>>,
     <<"a","p","p","l","e","s","a","u","c","e",NL>>,
     <<"b","a","n","a","n","a",NL>> >>

\* A dictionary with a blank line, a padded capitalised word and a word in capitals.
MixedDictionary ==
  << <<NL>>, <<" ","P","a","s","s","w","o","r","d"," ",NL>>, <<"A","B","C",NL>> >>

\* A dictionary file with no non-blank line.
BlankDictionary == << <<" ",NL>> >>

SeqsUpTo(S, n) == UNION {[1..k -> S] : k \in 0..n}

Wordlists ==
  SeqsUpTo(LineUniverse, MaxLines)
    \cup {Example1Wordlist, Example3Wordlist, Example4Wordlist}

\* The identifiers Init passes to --presets; "bogus" is no preset.
IdUniverse == {"ml8", "upper", "has_uppercase", "dict", "bogus"}

PresetSelections == SeqsUpTo(IdUniverse, MaxPresets) \ {<<>>}

\* The patterns Init passes to --regex.
RegexUniverse == {"", "(", "^(apple|banana)$"}

\* The command lines: --presets, --regex, neither, or both.
Selections ==
  {[presets |-> ps, regex |-> None] : ps \in PresetSelections}
    \cup {[presets |-> <<>>, regex |-> r] : r \in RegexUniverse \cup {None}}
    \cup {[presets |-> <<"ml8">>, regex |-> "password"]}

Argvs ==
  {[presets |-> sel.presets, regex |-> sel.regex, output |-> o,
    invert_match |-> v, ignore_case |-> i, dictionary_file |-> d] :
     sel \in Selections, o \in {"stdout", "file"},
     v \in BOOLEAN, i \in BOOLEAN, d \in BOOLEAN}

Dictionaries == {Example3Dictionary, MixedDictionary, BlankDictionary}

\* ------------------------------------------------------------ state
VARIABLES
  argv,        \* the command line of the running invocation
  wordlist,    \* the lines of the wordlist file
  dictionary,  \* the lines of the --dictionary-file file (<<>> when not given)
  files,       \* each file object: "unopened", "open", "closed"; sys.stdout: "stdout"
  pc,          \* the statement the invocation is at
  exit_code,   \* None while running
  chosen_preset_full_names,
  uses_in_dictionary_preset,
  active_regex_patterns,
  active_dictionary_file,      \* TRUE: main passes args.dictionary_file; FALSE: None
  compiled_regexes,            \* <<pattern, ignore_case>> pairs
  dictionary_words,
  is_dictionary_filter_active,
  lines_read,                  \* lines the wordlist iterator has yielded
  count_matched,
  count_total_processed_lines,
  count_valid_passwords,
  out,                         \* the strings written to output_file, in order
  stderr,                      \* the messages printed to sys.stderr, in order
  runs                         \* the finished invocations of the session

main_vars ==
  <<chosen_preset_full_names, uses_in_dictionary_preset,
    active_regex_patterns, active_dictionary_file>>

core_vars ==
  <<compiled_regexes, dictionary_words, is_dictionary_filter_active, lines_read,
    count_matched, count_total_processed_lines, count_valid_passwords>>

env_vars == <<argv, wordlist, dictionary, runs>>

vars == <<env_vars, files, pc, exit_code, main_vars, core_vars, out, stderr>>

\* The state a process starts in, for a command line and the two files.
Start(a, wl, dict) ==
  /\ argv = a
  /\ wordlist = wl
  /\ dictionary = dict
  /\ files = [wordlist |-> "unopened",
              output |-> IF a.output = "file" THEN "unopened" ELSE "stdout",
              dictionary |-> "unopened"]
  /\ pc = "parse_args"
  /\ exit_code = None
  /\ chosen_preset_full_names = <<>>
  /\ uses_in_dictionary_preset = FALSE
  /\ active_regex_patterns = <<>>
  /\ active_dictionary_file = FALSE
  /\ compiled_regexes = <<>>
  /\ dictionary_words = {}
  /\ is_dictionary_filter_active = FALSE
  /\ lines_read = 0
  /\ count_matched = 0
  /\ count_total_processed_lines = 0
  /\ count_valid_passwords = 0
  /\ out = <<>>
  /\ stderr = <<>>

Init ==
  /\ runs = <<>>
  /\ \E a \in Argvs, wl \in Wordlists :
       \E dict \in IF a.dictionary_file THEN Dictionaries ELSE {<<>>} :
         Start(a, wl, dict)

\* ------------------------------------------------------------ main (cli.py)
Range(f) == {f[i] : i \in DOMAIN f}

Truthy(str) == str # None /\ str # ""

\* parser.error(message): usage and message on stderr, exit status 2.
ParserError(message) ==
  /\ stderr' = Append(stderr, <<"error", message>>)
  /\ exit_code' = 2
  /\ pc' = "exited"

\* parser.parse_args().  The command line is read left to right, wordlist
\* first, then the selection, then the other options; each FileType argument
\* is opened as it is read.  An invalid choice and a second member of the
\* exclusive group end the parse where they stand; a missing selection is
\* found at the end.
ParseArgs ==
  /\ pc = "parse_args"
  /\ LET bad == \E i \in DOMAIN argv.presets : argv.presets[i] \notin ALL_PRESET_CHOICES
         both == argv.presets # <<>> /\ argv.regex # None
         neither == argv.presets = <<>> /\ argv.regex = None
         opened == [wordlist |-> "open",
                    output |-> IF argv.output = "file" THEN "open" ELSE "stdout",
                    dictionary |-> IF argv.dictionary_file THEN "open" ELSE "unopened"]
     IN
     IF bad \/ both
       THEN /\ files' = [files EXCEPT !.wordlist = "open"]
            /\ ParserError(IF bad THEN "invalid choice" ELSE "not allowed with argument")
       ELSE IF neither
         THEN /\ files' = opened
              /\ ParserError("one of the arguments --presets --regex is required")
         ELSE /\ files' = opened
              /\ pc' = "select"
              /\ UNCHANGED <<exit_code, stderr>>
  /\ UNCHANGED <<env_vars, main_vars, core_vars, out>>

\* The names in first-seen order, each once.
RECURSIVE Dedupe(_, _)
Dedupe(names, acc) ==
  IF names = <<>> THEN acc
  ELSE Dedupe(Tail(names),
              IF Head(names) \in Range(acc) THEN acc ELSE Append(acc, Head(names)))

\* The regex of every chosen preset that has one, in order.
RECURSIVE PresetRegexes(_)
PresetRegexes(names) ==
  IF names = <<>> THEN <<>>
  ELSE LET rx == PRESETS[Head(names)].regex
       IN  IF rx # None THEN <<rx>> \o PresetRegexes(Tail(names))
           ELSE PresetRegexes(Tail(names))

\* Mutant: the dictionary rule is accepted without a dictionary file.
DictionaryMissing_Never(uses, dictionary_file) == FALSE

\* if uses_in_dictionary_preset and not args.dictionary_file
DictionaryMissing(uses, dictionary_file) == uses /\ ~dictionary_file

Warn(cond, text) == IF cond THEN << <<"warning", text>> >> ELSE <<>>

\* if args.presets: ...
SelectPresets ==
  /\ pc = "select"
  /\ argv.presets # <<>>
  /\ LET names == [i \in DOMAIN argv.presets |-> get_preset_by_name_or_id(argv.presets[i])]
         uses == "in_dictionary" \in Range(names)
         chosen == Dedupe(names, <<>>)
         patterns == PresetRegexes(chosen)
     IN
     IF None \in Range(names)
       THEN /\ ParserError("Unknown preset identifier")
            /\ UNCHANGED main_vars
       ELSE IF DictionaryMissing(uses, argv.dictionary_file)
         THEN /\ ParserError("--dictionary-file is required")
              /\ chosen_preset_full_names' = chosen
              /\ uses_in_dictionary_preset' = uses
              /\ UNCHANGED <<active_regex_patterns, active_dictionary_file>>
         ELSE /\ chosen_preset_full_names' = chosen
              /\ uses_in_dictionary_preset' = uses
              /\ active_dictionary_file' = (uses /\ argv.dictionary_file)
              /\ active_regex_patterns' = patterns
              /\ stderr' = stderr
                   \o Warn(~uses /\ argv.dictionary_file, "dictionary file will be ignored")
                   \o Warn(patterns = <<>> /\ ~uses, "No effective filter criteria")
              /\ pc' = "check_criteria"
              /\ UNCHANGED exit_code
  /\ UNCHANGED <<env_vars, files, core_vars, out>>

\* elif args.regex: ...
SelectRegex ==
  /\ pc = "select"
  /\ argv.presets = <<>>
  /\ Truthy(argv.regex)
  /\ active_regex_patterns' = Append(active_regex_patterns, argv.regex)
  /\ stderr' = stderr \o Warn(argv.dictionary_file, "dictionary file is ignored with --regex")
  /\ pc' = "check_criteria"
  /\ UNCHANGED <<env_vars, files, exit_code, core_vars, out,
                 chosen_preset_full_names, uses_in_dictionary_preset,
                 active_dictionary_file>>

\* Neither branch: --regex "" is falsy.
SelectNothing ==
  /\ pc = "select"
  /\ argv.presets = <<>>
  /\ ~Truthy(argv.regex)
  /\ pc' = "check_criteria"
  /\ UNCHANGED <<env_vars, files, exit_code, main_vars, core_vars, out, stderr>>

\* Mutant: the check for an empty filter is left out.
NoCriteria_Never == FALSE

\* if not active_regex_patterns and not active_dictionary_file: parser.error(...)
NoCriteria == active_regex_patterns = <<>> /\ ~active_dictionary_file

\* The check before the call, and the call of filter_passwords.
CheckCriteria ==
  /\ pc = "check_criteria"
  /\ IF NoCriteria
       THEN ParserError("No filtering criteria specified")
       ELSE pc' = "compile" /\ UNCHANGED <<exit_code, stderr>>
  /\ UNCHANGED <<env_vars, files, main_vars, core_vars, out>>

\* ------------------------------------------------------------ filter_passwords (core.py)
\* The index of the first pattern re.compile rejects, 0 when all compile.
FirstInvalid(patterns) ==
  IF \A i \in DOMAIN patterns : Compiles(patterns[i]) THEN 0
  ELSE CHOOSE i \in DOMAIN patterns :
         /\ ~Compiles(patterns[i])
         /\ \A j \in 1..(i - 1) : Compiles(patterns[j])

\* The compilation loop: every pattern compiled with the case flag, or the
\* error message and sys.exit(1) at the first invalid one.
CompilePatterns ==
  /\ pc = "compile"
  /\ LET k == FirstInvalid(active_regex_patterns)
         compiled(n) == [i \in 1..n |-> <<active_regex_patterns[i], argv.ignore_case>>]
     IN
     IF k = 0
       THEN /\ compiled_regexes' = compiled(Len(active_regex_patterns))
            /\ pc' = "load_dictionary"
            /\ UNCHANGED <<exit_code, stderr>>
       ELSE /\ compiled_regexes' = compiled(k - 1)
            /\ stderr' = Append(stderr, <<"error", "Invalid regex pattern">>)
            /\ exit_code' = 1
            /\ pc' = "exited"
  /\ UNCHANGED <<env_vars, files, main_vars, out, dictionary_words,
                 is_dictionary_filter_active, lines_read, count_matched,
                 count_total_processed_lines, count_valid_passwords>>

\* word.lower() if ignore_case else word
Fold(word, ignore_case) == IF ignore_case THEN Lower(word) ELSE word

\* The set built from the dictionary's lines: stripped, blank ones skipped, folded.
DictionaryWords(lines, ignore_case) ==
  {Fold(Strip(lines[i]), ignore_case) :
     i \in {j \in DOMAIN lines : Strip(lines[j]) # <<>>}}

\* The dictionary is read and closed when main passed one; the counters start at 0.
LoadDictionary ==
  /\ pc = "load_dictionary"
  /\ is_dictionary_filter_active' = active_dictionary_file
  /\ IF active_dictionary_file
       THEN /\ dictionary_words' = DictionaryWords(dictionary, argv.ignore_case)
            /\ files' = [files EXCEPT !.dictionary = "closed"]
       ELSE /\ dictionary_words' = {}
            /\ UNCHANGED files
  /\ count_matched' = 0
  /\ count_total_processed_lines' = 0
  /\ count_valid_passwords' = 0
  /\ pc' = "loop"
  /\ UNCHANGED <<env_vars, exit_code, main_vars, compiled_regexes, lines_read,
                 out, stderr>>

\* Mutant: the candidate is looked up as it is, whatever the case flag.
InDictionary_NoFold(password, ignore_case, words) == password \in words

\* The dictionary rule on one candidate.
InDictionary(password, ignore_case, words) == Fold(password, ignore_case) \in words

\* Mutant: only the first compiled regex is consulted.
AllRegexesMatch_FirstOnly(password, regexes) ==
  regexes = <<>> \/ Search(regexes[1][1], regexes[1][2], password)

\* Every compiled regex finds a match in the candidate.
AllRegexesMatch(password, regexes) ==
  \A i \in DOMAIN regexes : Search(regexes[i][1], regexes[i][2], password)

\* Mutant: the dictionary rule is not consulted.
AllCriteriaMet_SkipsDictionary(password, dict_active, ignore_case, words, regexes) ==
  AllRegexesMatch(password, regexes)

\* all_criteria_met for one candidate.
AllCriteriaMet(password, dict_active, ignore_case, words, regexes) ==
  /\ dict_active => InDictionary(password, ignore_case, words)
  /\ AllRegexesMatch(password, regexes)

\* Mutant: the invert flag is not consulted.
Keep_IgnoresInvert(all_criteria_met, invert_match) == all_criteria_met

\* Whether the candidate is written: the invert_match branches.
Keep(all_criteria_met, invert_match) ==
  IF invert_match THEN ~all_criteria_met ELSE all_criteria_met

\* Mutant: the candidate is written without a line terminator.
WriteLine_NoTerminator(password) == password

\* The string written for a kept candidate.
WriteLine(password) == password \o <<NL>>

\* The line the iterator yields next.
NextLine == wordlist[lines_read + 1]

\* Mutant: the line is counted as a valid password before the blank test.
ProcessLine_CountsBlank ==
  /\ pc = "loop"
  /\ lines_read < Len(wordlist)
  /\ lines_read' = lines_read + 1
  /\ count_total_processed_lines' = count_total_processed_lines + 1
  /\ count_valid_passwords' = count_valid_passwords + 1
  /\ LET password == Strip(NextLine)
         met == AllCriteriaMet(password, is_dictionary_filter_active, argv.ignore_case,
                               dictionary_words, compiled_regexes)
     IN
     IF password # <<>> /\ Keep(met, argv.invert_match)
       THEN /\ out' = Append(out, WriteLine(password))
            /\ count_matched' = count_matched + 1
       ELSE UNCHANGED <<count_matched, out>>
  /\ UNCHANGED <<env_vars, files, pc, exit_code, main_vars, compiled_regexes,
                 dictionary_words, is_dictionary_filter_active, stderr>>

\* One iteration of the line loop.
ProcessLine ==
  /\ pc = "loop"
  /\ lines_read < Len(wordlist)
  /\ lines_read' = lines_read + 1
  /\ count_total_processed_lines' = count_total_processed_lines + 1
  /\ LET password == Strip(NextLine)
         met == AllCriteriaMet(password, is_dictionary_filter_active, argv.ignore_case,
                               dictionary_words, compiled_regexes)
     IN
     IF password = <<>>
       THEN UNCHANGED <<count_valid_passwords, count_matched, out>>
       ELSE /\ count_valid_passwords' = count_valid_passwords + 1
            /\ IF Keep(met, argv.invert_match)
                 THEN /\ out' = Append(out, WriteLine(password))
                      /\ count_matched' = count_matched + 1
                 ELSE UNCHANGED <<count_matched, out>>
  /\ UNCHANGED <<env_vars, files, pc, exit_code, main_vars, compiled_regexes,
                 dictionary_words, is_dictionary_filter_active, stderr>>

\* Mutant: the first two counters change places.
Summary_Swapped ==
  <<"summary", count_total_processed_lines, count_valid_passwords, count_matched>>

\* The summary line printed to sys.stderr.
Summary == <<"summary", count_valid_passwords, count_total_processed_lines, count_matched>>

\* After the loop: the wordlist is closed, the output file too unless it is
\* sys.stdout, the summary is printed, and main returns.
EndOfInput ==
  /\ pc = "loop"
  /\ lines_read = Len(wordlist)
  /\ files' = [files EXCEPT !.wordlist = "closed",
                            !.output = IF @ = "stdout" THEN @ ELSE "closed"]
  /\ stderr' = Append(stderr, Summary)
  /\ exit_code' = 0
  /\ pc' = "exited"
  /\ UNCHANGED <<env_vars, main_vars, core_vars, out>>

\* ------------------------------------------------------------ one invocation
Next ==
  \/ ParseArgs
  \/ SelectPresets
  \/ SelectRegex
  \/ SelectNothing
  \/ CheckCriteria
  \/ CompilePatterns
  \/ LoadDictionary
  \/ ProcessLine
  \/ EndOfInput

Spec == Init /\ [][Next]_vars

\* ------------------------------------------------------------ a session of invocations
\* The files stay on disk between invocations: a later invocation can read the
\* same wordlist with another command line, or read what the one before wrote.

\* The lines Init builds the session's wordlists from.
SessionLines == {Line_blank, Line_Abc, Line_Passw0rd_padded}

\* The identifiers Init passes to --presets in a session.
SessionIds == {"ml8", "upper", "dict"}

\* The command lines a session starts with: --presets with one preset or a
\* pair of them, or --regex; without -v, which a later invocation adds.
SessionSelections ==
  {[presets |-> <<a>>, regex |-> None] : a \in SessionIds}
    \cup {[presets |-> <<a, b>>, regex |-> None] : a \in SessionIds, b \in SessionIds}
    \cup {[presets |-> <<>>, regex |-> r] : r \in {"", "^password$"}}

SessionArgvs ==
  {[presets |-> sel.presets, regex |-> sel.regex, output |-> "file",
    invert_match |-> FALSE, ignore_case |-> i, dictionary_file |-> TRUE] :
     sel \in SessionSelections, i \in BOOLEAN}

InitSession ==
  /\ runs = <<>>
  /\ \E a \in SessionArgvs, wl \in SeqsUpTo(SessionLines, MaxLines) :
       Start(a, wl, MixedDictionary)

\* What is left of the invocation that has just ended.
Finished ==
  [argv |-> argv, wordlist |-> wordlist, dictionary |-> dictionary, out |-> out,
   exit_code |-> exit_code,
   counts |-> <<count_valid_passwords, count_total_processed_lines, count_matched>>]

RECURSIVE Flatten(_)
Flatten(chunks) ==
  IF chunks = <<>> THEN <<>> ELSE Head(chunks) \o Flatten(Tail(chunks))

\* The lines that iterating a text yields: each up to and with its newline,
\* and what follows the last newline when that is not empty.
RECURSIVE SplitLines(_, _)
SplitLines(text, line) ==
  IF text = <<>> THEN (IF line = <<>> THEN <<>> ELSE <<line>>)
  ELSE IF Head(text) = NL
    THEN <<Append(line, NL)>> \o SplitLines(Tail(text), <<>>)
    ELSE SplitLines(Tail(text), Append(line, Head(text)))

\* The output file read back as a wordlist.
ReadLines(chunks) == SplitLines(Flatten(chunks), <<>>)

\* The next process of the session starts.
Invoke(a, wl) ==
  /\ pc = "exited"
  /\ Len(runs) + 1 < MaxRuns
  /\ runs' = Append(runs, Finished)
  /\ argv' = a
  /\ wordlist' = wl
  /\ dictionary' = dictionary
  /\ files' = [wordlist |-> "unopened",
               output |-> IF a.output = "file" THEN "unopened" ELSE "stdout",
               dictionary |-> "unopened"]
  /\ pc' = "parse_args"
  /\ exit_code' = None
  /\ chosen_preset_full_names' = <<>>
  /\ uses_in_dictionary_preset' = FALSE
  /\ active_regex_patterns' = <<>>
  /\ active_dictionary_file' = FALSE
  /\ compiled_regexes' = <<>>
  /\ dictionary_words' = {}
  /\ is_dictionary_filter_active' = FALSE
  /\ lines_read' = 0
  /\ count_matched' = 0
  /\ count_total_processed_lines' = 0
  /\ count_valid_passwords' = 0
  /\ out' = <<>>
  /\ stderr' = <<>>

\* The same command line with -v toggled, on the same wordlist.
InvokeInverted ==
  Invoke([argv EXCEPT !.invert_match = ~@], wordlist)

\* The same command line without -v, on the file the last invocation wrote.
InvokeOnOutput ==
  /\ pc = "exited"
  /\ exit_code = 0
  /\ Invoke([argv EXCEPT !.invert_match = FALSE], ReadLines(out))

Reverse(seq) == [i \in DOMAIN seq |-> seq[Len(seq) + 1 - i]]

\* The presets the session's first command line selected.
FirstPresets == IF runs = <<>> THEN argv.presets ELSE runs[1].argv.presets

\* The same command line with one of the session's presets alone, or with
\* them in reverse order, on the same wordlist.
InvokeWithPresets ==
  /\ Len(FirstPresets) >= 2
  /\ \E ps \in {<<FirstPresets[i]>> : i \in DOMAIN FirstPresets} \cup {Reverse(FirstPresets)} :
       Invoke([argv EXCEPT !.presets = ps], wordlist)

NextSession ==
  \/ Next
  \/ InvokeInverted
  \/ InvokeOnOutput
  \/ InvokeWithPresets

SpecSession == InitSession /\ [][NextSession]_vars

\* The invocations of the session that have ended, in order.
Ended == IF pc = "exited" THEN Append(runs, Finished) ELSE runs

\* An invocation has just ended: the states in which Ended grows, so a
\* property of the ended invocations need only be looked at there.
AtExit == pc = "exited"

\* ------------------------------------------------------------ sessions over the class presets
\* The strong presets and the class presets are run on candidates that hold
\* or lack each character class and that sit on either side of a length bound.
Line_all9 == <<"P","a","s","s","w","0","r","d","!",NL>>
Line_noupper9 == <<"p","a","s","s","w","0","r","d","!",NL>>
Line_nolower9 == <<"P","A","S","S","W","0","R","D","!",NL>>
Line_nodigit9 == <<"P","a","s","s","w","o","r","d","!",NL>>
Line_nospecial9 == <<"P","a","s","s","w","0","r","d","1",NL>>
Line_all7 == <<"P","w","0","r","d","!","a",NL>>
Line_all11 == <<"P","a","s","s","w","0","r","d","!","A","b",NL>>
Line_all12 == <<"P","a","s","s","w","0","r","d","!","A","b","c",NL>>
Line_abc == <<"a","b","c",NL>>
Line_ABC == <<"A","B","C",NL>>
Line_12 == <<"1","2","!",NL>>
Line_kelvin == <<Kelvin,"1",NL>>

CatalogLines ==
  {Line_all9, Line_noupper9, Line_nolower9, Line_nodigit9, Line_nospecial9,
   Line_all7, Line_all11, Line_all12, Line_abc, Line_ABC, Line_12, Line_kelvin}

\* The command lines a catalog session starts with: one strong or one letter
\* class preset, or --regex; to stdout, without -v and without dictionary.
CatalogSelections ==
  {[presets |-> <<a>>, regex |-> None] : a \in {"s8all", "s12all", "upper", "lower"}}
    \cup {[presets |-> <<>>, regex |-> r] : r \in {"", "^password$"}}

CatalogArgvs ==
  {[presets |-> sel.presets, regex |-> sel.regex, output |-> "stdout",
    invert_match |-> FALSE, ignore_case |-> i, dictionary_file |-> FALSE] :
     sel \in CatalogSelections, i \in BOOLEAN}

InitCatalog ==
  /\ runs = <<>>
  /\ \E a \in CatalogArgvs, wl \in SeqsUpTo(CatalogLines, MaxLines) :
       Start(a, wl, <<>>)

\* The length preset and the four class presets that a strong preset's
\* pattern puts together.
StrongParts ==
  [s8all |-> <<"ml8", "lower", "upper", "digit", "special">>,
   s12all |-> <<"ml12", "lower", "upper", "digit", "special">>]

\* The same command line with the strong preset replaced by its five parts,
\* on the same wordlist.
InvokeExpanded ==
  /\ Len(argv.presets) = 1
  /\ argv.presets[1] \in DOMAIN StrongParts
  /\ Invoke([argv EXCEPT !.presets = StrongParts[argv.presets[1]]], wordlist)

NextCatalog ==
  \/ Next
  \/ InvokeExpanded

SpecCatalog == InitCatalog /\ [][NextCatalog]_vars

\* ------------------------------------------------------------ vocabulary of the properties
IsBlank(line) == \A i \in DOMAIN line : IsSpace(line[i])

\* The candidates of a wordlist: its non-blank lines, trimmed, in order.
RECURSIVE Candidates(_)
Candidates(wl) ==
  IF wl = <<>> THEN <<>>
  ELSE IF IsBlank(Head(wl)) THEN Candidates(Tail(wl))
  ELSE <<Strip(Head(wl))>> \o Candidates(Tail(wl))

\* The written strings without their line terminator.
Emitted(o) == [i \in DOMAIN o |-> SubSeq(o[i], 1, Len(o[i]) - 1)]

\* Every position of c goes to exactly one of a and b, order kept.
RECURSIVE SplitsInto(_, _, _)
SplitsInto(c, a, b) ==
  IF c = <<>> THEN a = <<>> /\ b = <<>>
  ELSE \/ a # <<>> /\ Head(a) = Head(c) /\ SplitsInto(Tail(c), Tail(a), b)
       \/ b # <<>> /\ Head(b) = Head(c) /\ SplitsInto(Tail(c), a, Tail(b))

\* Two invocations with the same filters on the same files.
SameFilters(r1, r2) ==
  /\ r1.wordlist = r2.wordlist
  /\ r1.dictionary = r2.dictionary
  /\ r1.argv.presets = r2.argv.presets
  /\ r1.argv.regex = r2.argv.regex
  /\ r1.argv.ignore_case = r2.argv.ignore_case

Completed(r) == r.exit_code = 0

\* ------------------------------------------------------------ C1
InvertPair(r1, r2) ==
  /\ Completed(r1) /\ Completed(r2)
  /\ SameFilters(r1, r2)
  /\ r1.argv.invert_match /\ ~r2.argv.invert_match

\* C1: of two completed invocations with the same filters on the same input,
\* one with -v and one without, the outputs have no line in common, every
\* candidate position is emitted by exactly one of the two, and the two
\* emitted counts add up to the number of non-blank lines.
C1_InvertComplement ==
  AtExit =>
    \A i \in DOMAIN Ended, j \in DOMAIN Ended :
      InvertPair(Ended[i], Ended[j]) =>
        LET r1 == Ended[i]
            r2 == Ended[j]
        IN  /\ Range(r1.out) \cap Range(r2.out) = {}
            /\ SplitsInto(Candidates(r1.wordlist), Emitted(r1.out), Emitted(r2.out))
            /\ Range(Emitted(r1.out)) \cup Range(Emitted(r2.out))
                 = Range(Candidates(r1.wordlist))
            /\ r1.counts[3] + r2.counts[3] = r1.counts[1]
            /\ r1.counts[1] = Len(Candidates(r1.wordlist))
            /\ r2.counts[1] = r1.counts[1]

\* An inverted and a plain invocation of the same filters that both emitted a line.
C1_Witness ==
  AtExit /\ \E i \in DOMAIN Ended, j \in DOMAIN Ended :
    /\ InvertPair(Ended[i], Ended[j])
    /\ Ended[i].out # <<>>
    /\ Ended[j].out # <<>>

\* ------------------------------------------------------------ C2
Plain(r) == Completed(r) /\ ~r.argv.invert_match

SameInput(r1, r2) ==
  /\ r1.wordlist = r2.wordlist
  /\ r1.dictionary = r2.dictionary
  /\ r1.argv.ignore_case = r2.argv.ignore_case

\* The lines of a that also occur in b, in a's order.
Intersection(a, b) == SelectSeq(a, LAMBDA l : l \in Range(b))

ComboTriple(rab, ra, rb) ==
  /\ Plain(rab) /\ Plain(ra) /\ Plain(rb)
  /\ SameInput(rab, ra) /\ SameInput(rab, rb)
  /\ Len(rab.argv.presets) = 2
  /\ ra.argv.presets = <<rab.argv.presets[1]>>
  /\ rb.argv.presets = <<rab.argv.presets[2]>>

ReversedPair(r1, r2) ==
  /\ Plain(r1) /\ Plain(r2)
  /\ SameInput(r1, r2)
  /\ Len(r1.argv.presets) = 2
  /\ r2.argv.presets = Reverse(r1.argv.presets)

\* C2: the plain output of an invocation selecting two presets is the
\* intersection of the plain outputs of the invocations selecting each of
\* them alone, on the same input and case flag; and selecting the two in the
\* other order gives the same output.
C2_ComboIsIntersection ==
  AtExit =>
    /\ \A i \in DOMAIN Ended, j \in DOMAIN Ended, k \in DOMAIN Ended :
         ComboTriple(Ended[i], Ended[j], Ended[k]) =>
           /\ Ended[i].out = Intersection(Ended[j].out, Ended[k].out)
           /\ Range(Ended[i].out) = Range(Ended[j].out) \cap Range(Ended[k].out)
    /\ \A i \in DOMAIN Ended, j \in DOMAIN Ended :
         ReversedPair(Ended[i], Ended[j]) => Ended[i].out = Ended[j].out

\* The dictionary rule and a regex preset that alone emit different lines,
\* and whose combination emits a line.
C2_Witness ==
  AtExit /\ \E i \in DOMAIN Ended, j \in DOMAIN Ended, k \in DOMAIN Ended :
    /\ ComboTriple(Ended[i], Ended[j], Ended[k])
    /\ "dict" \in Range(Ended[i].argv.presets)
    /\ Ended[i].out # <<>>
    /\ Ended[j].out # Ended[k].out

\* ------------------------------------------------------------ C4
\* r2 filters, without -v, the file r1 wrote, with r1's filters.
Refilter(r1, r2) ==
  /\ Completed(r1) /\ Completed(r2)
  /\ r2.wordlist = ReadLines(r1.out)
  /\ r1.dictionary = r2.dictionary
  /\ r1.argv.presets = r2.argv.presets
  /\ r1.argv.regex = r2.argv.regex
  /\ r1.argv.ignore_case = r2.argv.ignore_case
  /\ ~r2.argv.invert_match

\* C4: filtering, without -v, the output of a plain invocation with the same
\* filters emits it unchanged, with as many lines emitted as non-blank lines
\* read; filtering the output of an inverted invocation emits nothing.
C4_Refilter ==
  AtExit =>
    \A i \in DOMAIN Ended, j \in DOMAIN Ended :
      Refilter(Ended[i], Ended[j]) =>
        IF Ended[i].argv.invert_match
          THEN Ended[j].out = <<>> /\ Ended[j].counts[3] = 0
          ELSE /\ Ended[j].out = Ended[i].out
               /\ Ended[j].counts[3] = Ended[j].counts[1]
               /\ Ended[j].counts[3] = Len(Ended[i].out)

\* Both cases on a wordlist that was not already its own output: a plain run
\* whose output was filtered again, and an inverted one.
C4_Witness ==
  AtExit /\ \E i \in DOMAIN Ended, j \in DOMAIN Ended :
    /\ i < j
    /\ Refilter(Ended[i], Ended[j])
    /\ Ended[i].out # <<>>
    /\ Ended[i].out # Ended[i].wordlist
    /\ Len(Ended[i].out) < Len(Ended[i].wordlist)

\* ------------------------------------------------------------ C3
\* The step that consumes the next line of the wordlist.
ConsumesLine == pc = "loop" /\ lines_read' = lines_read + 1

\* C3: a step that consumes a blank line (empty, or whitespace only) writes
\* nothing and leaves the non-blank and emitted counters alone, whatever the
\* flags and filters; it adds one to the total; and no written string is blank.
C3_BlankLinesSkipped ==
  /\ [][(ConsumesLine /\ IsBlank(NextLine)) =>
          /\ out' = out
          /\ count_valid_passwords' = count_valid_passwords
          /\ count_matched' = count_matched
          /\ count_total_processed_lines' = count_total_processed_lines + 1]_vars
  /\ [](\A i \in DOMAIN out : ~IsBlank(out[i]))

\* An inverted run that wrote the line its filters rejected and then consumed
\* a blank line.
C3_Witness ==
  /\ pc = "loop"
  /\ argv.invert_match
  /\ lines_read = 2
  /\ ~IsBlank(wordlist[1])
  /\ IsBlank(wordlist[2])
  /\ count_total_processed_lines = 2
  /\ count_valid_passwords = 1
  /\ Len(out) = 1

\* ------------------------------------------------------------ C5
\* { fold(trim(l)) : l a dictionary line with trim(l) non-empty }
FoldedDictionary(lines, ic) ==
  {Fold(Strip(l), ic) : l \in {m \in Range(lines) : ~IsBlank(m)}}

PassesDictionaryRule(candidate) ==
  Fold(candidate, argv.ignore_case) \in FoldedDictionary(dictionary, argv.ignore_case)

\* The invocation filters by the dictionary rule alone.
DictionaryOnly == is_dictionary_filter_active /\ compiled_regexes = <<>>

Example3Run ==
  /\ pc = "exited"
  /\ argv.presets = <<"dict">>
  /\ argv.regex = None
  /\ argv.dictionary_file
  /\ ~argv.invert_match
  /\ wordlist = Example3Wordlist
  /\ dictionary = Example3Dictionary

Out_password == <<"p","a","s","s","w","o","r","d",NL>>
Out_Password == <<"P","a","s","s","w","o","r","d",NL>>

\* C5: in a run filtering by the dictionary rule alone, a candidate is kept
\* iff its folded form is in the set of the folded, trimmed non-blank
\* dictionary lines (written iff kept differs from the invert flag); example 3
\* gives [password] case-sensitively and [password, Password] caselessly; and
\* a dictionary with no non-blank line lets a plain run write nothing.
C5_DictionaryRule ==
  /\ [][(ConsumesLine /\ DictionaryOnly /\ ~IsBlank(NextLine)) =>
          ((out' # out) <=> (PassesDictionaryRule(Strip(NextLine)) # argv.invert_match))]_vars
  /\ [](Example3Run =>
          out = IF argv.ignore_case THEN <<Out_password, Out_Password>>
                ELSE <<Out_password>>)
  /\ []((DictionaryOnly /\ dictionary = BlankDictionary /\ ~argv.invert_match)
          => out = <<>>)

\* Example 3 run caselessly to its end.
C5_Witness ==
  /\ Example3Run
  /\ argv.ignore_case
  /\ DictionaryOnly
  /\ out = <<Out_password, Out_Password>>

\* ------------------------------------------------------------ C6
SelectsDictionary(a) == \E i \in DOMAIN a.presets : a.presets[i] \in {"in_dictionary", "dict"}

\* The four configuration errors of a command line.
ConfigurationError(a) ==
  \/ \E i \in DOMAIN a.presets : a.presets[i] \notin ALL_PRESET_CHOICES
  \/ SelectsDictionary(a) /\ ~a.dictionary_file
  \/ a.presets = <<>> /\ ~Truthy(a.regex)
  \/ a.regex # None /\ ~Compiles(a.regex)

\* C6: a run with a configuration error ends with a failure status; a run
\* that ends with a failure status has written nothing and read no line of
\* the wordlist; and once a line has been read every pattern is compiled and
\* the run cannot fail any more.
C6_ErrorsBeforeInput ==
  /\ (pc = "exited" /\ ConfigurationError(argv)) => exit_code \in {1, 2}
  /\ (pc = "exited" /\ exit_code # 0) =>
       /\ out = <<>>
       /\ lines_read = 0
       /\ count_total_processed_lines = 0
  /\ lines_read > 0 =>
       /\ Len(compiled_regexes) = Len(active_regex_patterns)
       /\ pc \in {"loop", "exited"}
       /\ pc = "exited" => exit_code = 0

\* A pattern failed to compile, with a wordlist that has lines to read.
C6_Witness ==
  /\ pc = "exited"
  /\ exit_code = 1
  /\ wordlist # <<>>
  /\ lines_read = 0
  /\ out = <<>>

\* ------------------------------------------------------------ C7
\* C7 (the claim as stated; the code breaks it): when a run has ended, no
\* file opened for it is still open.
C7_AllClosedAtExit ==
  pc = "exited" => \A f \in {"wordlist", "output", "dictionary"} : files[f] # "open"

\* ------------------------------------------------------------ C8
Summaries == SelectSeq(stderr, LAMBDA m : m[1] = "summary")

\* C8: no summary is printed before the whole input is processed, nor by a
\* run that fails; a run that completes has printed exactly one, on stderr,
\* carrying the number of non-blank lines, of lines read and of lines written;
\* and the sink holds candidates only.
C8_OneSummary ==
  /\ Summaries # <<>> =>
       /\ pc = "exited"
       /\ exit_code = 0
       /\ lines_read = Len(wordlist)
  /\ (pc = "exited" /\ exit_code = 0) =>
       /\ Summaries = << <<"summary", Len(Candidates(wordlist)), Len(wordlist), Len(out)>> >>
       /\ stderr[Len(stderr)] = Summaries[1]
       /\ count_valid_passwords = Len(Candidates(wordlist))
       /\ count_total_processed_lines = Len(wordlist)
       /\ count_matched = Len(out)
  /\ \A i \in DOMAIN out : Emitted(out)[i] \in Range(Candidates(wordlist))

\* A completed run writing to standard output, with a blank line read and a
\* line written.
C8_Witness ==
  /\ pc = "exited"
  /\ exit_code = 0
  /\ argv.output = "stdout"
  /\ 0 < count_matched
  /\ count_matched < count_valid_passwords
  /\ count_valid_passwords < count_total_processed_lines
  /\ Len(Summaries) = 1

\* ------------------------------------------------------------ C9
EmptySelection(a) == a.presets = <<>> /\ ~Truthy(a.regex)

\* C9: the line loop runs, and a run completes, only with a compiled regex
\* or an active dictionary (which main passes only when a dictionary file was
\* given); a command line with no selection, or with an empty custom pattern,
\* never reaches filter_passwords and ends with status 2.
C9_NeverEmptyFilter ==
  /\ (pc = "loop" \/ lines_read > 0 \/ (pc = "exited" /\ exit_code = 0)) =>
       (compiled_regexes # <<>> \/ is_dictionary_filter_active)
  /\ is_dictionary_filter_active => argv.dictionary_file
  /\ EmptySelection(argv) =>
       /\ pc \notin {"compile", "load_dictionary", "loop"}
       /\ pc = "exited" => exit_code = 2

\* --regex with an empty pattern was refused.
C9_Witness ==
  /\ pc = "exited"
  /\ exit_code = 2
  /\ argv.regex = ""
  /\ wordlist # <<>>
  /\ active_regex_patterns = <<>>

\* ------------------------------------------------------------ C10
Example1Run ==
  /\ pc = "exited"
  /\ argv.presets = <<"ml8">>
  /\ argv.regex = None
  /\ ~argv.invert_match
  /\ wordlist = Example1Wordlist

Example1Output ==
  << <<"A","B","C","D","E","F","G","H",NL>>,
     <<"P","a","s","s","w","0","r","d","!",NL>> >>

\* C10 (as amended): example 1 with min-length-8, plain: the output is
\* ABCDEFGH, Passw0rd! and the summary reports 3 non-blank lines, 5 lines
\* read, 2 emitted.
C10_Example1 ==
  Example1Run =>
    /\ out = Example1Output
    /\ Summaries = << <<"summary", 3, 5, 2>> >>

\* C10 (as stated): the same, with a summary of 4 non-blank lines.
C10_Example1_AsStated ==
  Example1Run =>
    /\ out = Example1Output
    /\ Summaries = << <<"summary", 4, 5, 2>> >>

\* Example 1 run to its end.
C10_Witness ==
  /\ Example1Run
  /\ exit_code = 0
  /\ Len(out) = 2
  /\ Len(Summaries) = 1

\* ------------------------------------------------------------ C11
\* The preset of an identifier accepts a candidate under the case flag.
Accepts(id, ic, c) == Search(PRESETS[PRESET_ID_TO_NAME_MAP[id]].regex, ic, c)

\* r1 selects a strong preset alone and r2 its five parts, on the same input
\* and case flag.
ExpandedPair(r1, r2) ==
  /\ Plain(r1) /\ Plain(r2)
  /\ SameInput(r1, r2)
  /\ Len(r1.argv.presets) = 1
  /\ r1.argv.presets[1] \in DOMAIN StrongParts
  /\ r2.argv.presets = StrongParts[r1.argv.presets[1]]

\* C11: under either case flag, strong-8-plus-all-types accepts a candidate
\* exactly when min-length-8, has-lowercase, has-uppercase, has-digit and
\* has-special-char all accept it, and strong-12-plus-all-types exactly when
\* min-length-12 and the same four do; so an invocation selecting the strong
\* preset writes what the invocation selecting the five presets writes.
C11_StrongIsConjunction ==
  AtExit =>
    /\ \A k \in DOMAIN Candidates(wordlist), ic \in BOOLEAN, strong \in DOMAIN StrongParts :
         Accepts(strong, ic, Candidates(wordlist)[k])
           <=> \A j \in DOMAIN StrongParts[strong] :
                 Accepts(StrongParts[strong][j], ic, Candidates(wordlist)[k])
    /\ \A i \in DOMAIN Ended, j \in DOMAIN Ended :
         ExpandedPair(Ended[i], Ended[j]) => Ended[i].out = Ended[j].out

\* A strong preset and its five parts were run on a wordlist of which they
\* emitted one candidate and rejected another.
C11_Witness ==
  AtExit /\ \E i \in DOMAIN Ended, j \in DOMAIN Ended :
    /\ ExpandedPair(Ended[i], Ended[j])
    /\ Len(Ended[j].out) = 1
    /\ Len(Candidates(Ended[j].wordlist)) = 2

\* ------------------------------------------------------------ C12
HasUpper(c) == \E i \in DOMAIN c : IsUpper(c[i])
HasLower(c) == \E i \in DOMAIN c : IsLower(c[i])

\* A character that [A-Z] and [a-z] match under re.IGNORECASE.
HasCaselessLetter(c) ==
  \E i \in DOMAIN c : IsUpper(c[i]) \/ IsLower(c[i]) \/ c[i] = Kelvin

\* A completed plain invocation that selected the one preset.
LetterRun(id) ==
  /\ pc = "exited"
  /\ exit_code = 0
  /\ argv.presets = <<id>>
  /\ argv.regex = None
  /\ ~argv.invert_match

\* C12: without the case flag, has-uppercase emits exactly the candidates
\* that hold one of A-Z and has-lowercase exactly those that hold one of a-z;
\* with the case flag, each of the two emits exactly the candidates that hold
\* a letter of either case (or a character whose other case is such a letter).
C12_LetterClasses ==
  /\ LetterRun("upper") =>
       Emitted(out) =
         SelectSeq(Candidates(wordlist),
                   LAMBDA c : IF argv.ignore_case THEN HasCaselessLetter(c) ELSE HasUpper(c))
  /\ LetterRun("lower") =>
       Emitted(out) =
         SelectSeq(Candidates(wordlist),
                   LAMBDA c : IF argv.ignore_case THEN HasCaselessLetter(c) ELSE HasLower(c))

\* C12 as stated: under either case flag has-uppercase emits exactly the
\* candidates that hold an uppercase letter, has-lowercase exactly those that
\* hold a lowercase letter.
C12_LetterClasses_AsStated ==
  /\ LetterRun("upper") =>
       Emitted(out) = SelectSeq(Candidates(wordlist), LAMBDA c : HasUpper(c))
  /\ LetterRun("lower") =>
       Emitted(out) = SelectSeq(Candidates(wordlist), LAMBDA c : HasLower(c))

\* has-uppercase with the case flag emitted a candidate without an uppercase
\* letter and rejected a candidate without a letter.
C12_Witness ==
  /\ LetterRun("upper")
  /\ argv.ignore_case
  /\ Len(Candidates(wordlist)) = 2
  /\ Len(out) = 1
  /\ ~HasUpper(Emitted(out)[1])

\* ------------------------------------------------------------ C13
\* The patterns the command line asks for: those of the selected presets that
\* have one, or the --regex pattern.
AskedPatterns ==
  IF argv.presets # <<>>
    THEN {PRESETS[get_preset_by_name_or_id(argv.presets[i])].regex :
            i \in DOMAIN argv.presets} \ {None}
    ELSE {argv.regex}

AsksDictionary ==
  \E i \in DOMAIN argv.presets :
    get_preset_by_name_or_id(argv.presets[i]) = "in_dictionary"

\* The criteria of the command line hold of a candidate.
CriteriaMet(c) ==
  /\ \A p \in AskedPatterns : Search(p, argv.ignore_case, c)
  /\ AsksDictionary => PassesDictionaryRule(c)

\* criteria met XOR invert
KeepDecision(c) == CriteriaMet(c) # argv.invert_match

\* What the sink holds once the given lines are read.
ExpectedSink(lines) ==
  LET kept == SelectSeq(Candidates(lines), LAMBDA c : KeepDecision(c))
  IN  [i \in DOMAIN kept |-> kept[i] \o <<NL>>]

IsPrefix(a, b) == Len(a) <= Len(b) /\ SubSeq(b, 1, Len(a)) = a

\* C13: in every state the sink holds exactly the trimmed non-blank lines read
\* so far whose keep decision (criteria met XOR invert) is true, each followed
\* by one line terminator, in input order, duplicates kept; and a step only
\* ever appends to the sink.
C13_SinkContents ==
  /\ [](out = ExpectedSink(SubSeq(wordlist, 1, lines_read)))
  /\ [][IsPrefix(out, out')]_vars

\* In the middle of a run: a candidate was written, another was read and not
\* written, and there are lines left to read.
C13_Witness ==
  /\ pc = "loop"
  /\ lines_read < Len(wordlist)
  /\ Len(out) = 1
  /\ Len(Candidates(SubSeq(wordlist, 1, lines_read))) = 2

\* ------------------------------------------------------------ C14
\* The lines read so far that are not blank.
NonBlankRead == {i \in 1..lines_read : ~IsBlank(wordlist[i])}

\* C14: in every state 0 <= emitted <= non-blank <= total, total is the number
\* of lines consumed, non-blank the number of those that are not blank, and
\* emitted the number of strings written; a step that consumes a line adds
\* exactly one to total and at most one to each of the other two; and no step
\* makes a counter smaller.
C14_Counters ==
  /\ [](/\ 0 <= count_matched
        /\ count_matched <= count_valid_passwords
        /\ count_valid_passwords <= count_total_processed_lines
        /\ count_total_processed_lines = lines_read
        /\ count_valid_passwords = Cardinality(NonBlankRead)
        /\ count_matched = Len(out))
  /\ [][ConsumesLine =>
          /\ count_total_processed_lines' = count_total_processed_lines + 1
          /\ count_valid_passwords' - count_valid_passwords \in {0, 1}
          /\ count_matched' - count_matched \in {0, 1}]_vars
  /\ [][/\ count_total_processed_lines' >= count_total_processed_lines
        /\ count_valid_passwords' >= count_valid_passwords
        /\ count_matched' >= count_matched]_vars

\* In the loop with the three counters apart: a blank line, a rejected
\* candidate and a written candidate have been consumed.
C14_Witness ==
  /\ pc = "loop"
  /\ 0 < count_matched
  /\ count_matched < count_valid_passwords
  /\ count_valid_passwords < count_total_processed_lines

====
